---- MODULE Spec2Model ----
(***************************************************************************)
(* Model of write_tdms.py: the Reader class (acquisition session around a  *)
(* nidaqmx task) and the Mainwindow handlers that drive it (start_reading, *)
(* stop_reading, callback, openfolder, logging_toggle, quit_me,            *)
(* show_error).                                                            *)
(*                                                                         *)
(* Text of the entry widgets is a sequence of one-character strings.       *)
(* The nidaqmx driver is the environment: every driver call that can       *)
(* raise DaqError is a nondeterministic choice between success and the     *)
(* error.  The every-n-samples callback runs on the driver's thread, so    *)
(* it interleaves with the Tk handlers at the one place where a handler    *)
(* touches the counter and the task in two steps (stop_reading).           *)
(***************************************************************************)
EXTENDS Integers, Sequences, FiniteSets, TLC

\* ------------------------------------------------------------------ bounds
MaxTasks == 2
MaxBlocks == 2
MaxFaults == 1

\* ------------------------------------------------------- program constants
DefaultMaxSamplesFile == 3000000

DefaultEntry == <<"2", "0", "0", "k">>

\* What the operator types into the Sample Rate entry.
RateChoices == { DefaultEntry, <<"1">>, <<"k">> }

\* What the operator types into the Samples/Channel entry.
ChanChoices == { DefaultEntry, <<"2">> }

\* What the operator types into the Max Samples/File entry.
MaxSamplesChoices == { DefaultMaxSamplesFile, 2 }

\* The wider choice of texts the runs of the start and stop handlers begin with.
RateInputs ==
    { DefaultEntry, <<"1">>, <<"2">>, <<"1", "0">>, <<"1", "1">>, <<"k">> }

ChanInputs ==
    { DefaultEntry, <<"1">>, <<"5">>, <<"1", "0">>, <<"1", "1">>,
      <<"2", "0", "k">>, <<"1", "9", "9", "9", "9">>, <<"1", "M">> }

\* --------------------------------------------------------- int_from_str
Digits == {"0", "1", "2", "3", "4", "5", "6", "7", "8", "9"}

DigitVal(c) ==
    CASE c = "0" -> 0 [] c = "1" -> 1 [] c = "2" -> 2 [] c = "3" -> 3
      [] c = "4" -> 4 [] c = "5" -> 5 [] c = "6" -> 6 [] c = "7" -> 7
      [] c = "8" -> 8 [] c = "9" -> 9

\* str.replace(c, r): every occurrence of the character c becomes r.
RECURSIVE Replace(_, _, _)
Replace(s, c, r) ==
    IF s = <<>> THEN <<>>
    ELSE (IF Head(s) = c THEN r ELSE <<Head(s)>>) \o Replace(Tail(s), c, r)

\* while var_string[-1] not in "1234567890": var_string = var_string[:-1]
\* var_string[-1] of the empty string raises IndexError.
RECURSIVE StripTail(_)
StripTail(s) ==
    IF s = <<>> THEN [exc |-> "IndexError", s |-> <<>>]
    ELSE IF s[Len(s)] \in Digits THEN [exc |-> "none", s |-> s]
    ELSE StripTail(SubSeq(s, 1, Len(s) - 1))

RECURSIVE DecVal(_)
DecVal(s) ==
    IF s = <<>> THEN 0
    ELSE 10 * DecVal(SubSeq(s, 1, Len(s) - 1)) + DigitVal(s[Len(s)])

RECURSIVE Pow10(_)
Pow10(n) == IF n = 0 THEN 1 ELSE 10 * Pow10(n - 1)

AllDigits(s) == s # <<>> /\ \A i \in 1..Len(s) : s[i] \in Digits

\* int(float(s)) for s over digits and "E": digits, or digits "E" digits;
\* anything else is no float literal and raises ValueError.
IntOfFloat(s) ==
    LET epos == {i \in 1..Len(s) : s[i] = "E"} IN
    IF epos = {} THEN
        IF AllDigits(s) THEN [exc |-> "none", val |-> DecVal(s)]
        ELSE [exc |-> "ValueError", val |-> 0]
    ELSE IF Cardinality(epos) = 1 THEN
        LET i == CHOOSE j \in epos : TRUE
            mant == SubSeq(s, 1, i - 1)
            ex == SubSeq(s, i + 1, Len(s))
        IN IF AllDigits(mant) /\ AllDigits(ex)
           THEN [exc |-> "none", val |-> DecVal(mant) * Pow10(DecVal(ex))]
           ELSE [exc |-> "ValueError", val |-> 0]
    ELSE [exc |-> "ValueError", val |-> 0]

int_from_str(var_string) ==
    LET s1 == Replace(var_string, "k", <<"E", "3">>)
        s2 == Replace(s1, "M", <<"E", "6">>)
        st == StripTail(s2)
    IN IF st.exc # "none" THEN [exc |-> st.exc, val |-> 0]
       ELSE IntOfFloat(st.s)

\* ------------------------------------------------------------------ state
VARIABLES
    sample_rate,          \* Mainwindow.sample_rate: text of the Sample Rate entry
    sample_chan,          \* Mainwindow.sample_chan: text of the Samples/Channel entry
    max_samples_file,     \* Mainwindow.max_samples_file
    amount_samples_var,   \* Mainwindow.amount_samples_var: samples counted in the file
    logging,              \* Mainwindow.logging
    btn_start, btn_stop, btn_logging,   \* state of the three buttons
    reader,               \* Mainwindow.reader
    tasks,                \* the nidaqmx tasks created so far, by creation number
    nTasks,               \* how many tasks were created
    segs,                 \* the TDMS files the driver wrote: a sequence of block sequences
    nBlocks,              \* how many blocks the callbacks read
    flagged,              \* the blocks read by a callback while Mainwindow.logging was set
    pc,                   \* the Tk thread: "idle", "stopping" (inside stop_reading), "quit"
    lastOp,               \* the last handler that ran and how it ended
    run,                  \* the current session: blocks read (n), rollovers (roll), and
                          \* clean: started with logging on and the counter at 0, and
                          \* no operator input since
    faults                \* how many driver calls raised DaqError of the driver's own accord

vars == <<sample_rate, sample_chan, max_samples_file, amount_samples_var, logging,
          btn_start, btn_stop, btn_logging, reader, tasks, nTasks, segs, nBlocks,
          flagged, pc, lastOp, run, faults>>

TaskIds == 1..MaxTasks

\* A task slot before nidaqmx.Task() created it.
NoTask ==
    [state |-> "none", reg |-> FALSE, every_n |-> 0, rate |-> 0, ring |-> 0,
     logcfg |-> FALSE, file |-> 0, closeCalls |-> 0, closedFrom |-> "none",
     faulted |-> FALSE]

\* self.reader = False
NoReader ==
    [made |-> FALSE, block_size |-> 0, task_attr |-> "unset", task |-> 0,
     channel_reader |-> 0, data_in |-> 0]

\* Mutation: the new Reader taking over the buffer of the Reader the window
\* holds instead of allocating its own.
NewReaderKeepsBuffer(samp_rate, samp_chan, lg) ==
    [made |-> TRUE, block_size |-> samp_chan, task_attr |-> "unset", task |-> 0,
     channel_reader |-> 0, data_in |-> reader.data_in]

\* Reader.__init__: the task attribute does not exist yet, data_in is zeros.
\* The fields the program reads back are kept: settings["sample block size"],
\* task, channel_reader, data_in.  sample_rate lives on in the task's clock
\* (tasks[t].rate), the logging argument is never read again.
NewReader(samp_rate, samp_chan, lg) ==
    [made |-> TRUE, block_size |-> samp_chan, task_attr |-> "unset", task |-> 0,
     channel_reader |-> 0, data_in |-> 0]

Op(op, out) ==
    [op |-> op, out |-> out, shown |-> FALSE, inc |-> 0, tgt |-> 0,
     pre |-> "none", flag |-> FALSE]

Init ==
    /\ sample_rate = DefaultEntry
    /\ sample_chan = DefaultEntry
    /\ max_samples_file = DefaultMaxSamplesFile
    /\ amount_samples_var = 0
    /\ logging = FALSE
    /\ btn_start = "normal"
    /\ btn_stop = "disabled"
    /\ btn_logging = "disabled"
    /\ reader = NoReader
    /\ tasks = [t \in TaskIds |-> NoTask]
    /\ nTasks = 0
    /\ segs = <<>>
    /\ nBlocks = 0
    /\ flagged = <<>>
    /\ pc = "idle"
    /\ lastOp = Op("init", "none")
    /\ run = [n |-> 0, roll |-> 0, clean |-> FALSE]
    /\ faults = 0

\* ----------------------------------------------------------------- Reader
\* samps_per_chan handed to cfg_samp_clk_timing.
SampsPerChan(samp_rate) == 10 * samp_rate

\* Mutation: the logging branch keeps the depth of cfg_samp_clk_timing.
InputBufSizeTen(samp_rate) == samp_rate * 10

\* in_stream.input_buf_size set by start_reading when logging is on.
InputBufSize(samp_rate) == samp_rate * 5

\* Mutation: pausefunc releasing the handle as well.
PausefuncReleases(tk, t) == [tk EXCEPT ![t].state = "closed"]

\* Reader.pausefunc: task.stop()
Pausefunc(tk, t) == [tk EXCEPT ![t].state = "halted"]

\* task.close(): the handle is released and the task's configuration with it.
CloseTask(tk, t) ==
    [tk EXCEPT ![t] = [NoTask EXCEPT !.state = "closed",
                                     !.closedFrom = tk[t].state,
                                     !.closeCalls = tk[t].closeCalls + 1,
                                     !.faulted = tk[t].faulted]]

\* The driver call of stopfunc that raises DaqError, if any, when used
\* driver errors were raised before it.
StopFaults(used) ==
    {"none"} \cup (IF used < MaxFaults THEN {"pause", "close"} ELSE {})

\* Reader.stopfunc called as self.reader.stopfunc(); fault names the driver
\* call that raises DaqError, if any.  An exception leaves what was done.
Stopfunc(tk, rd, fault) ==
    IF ~rd.made \/ rd.task_attr # "Task"
    THEN [tasks |-> tk, reader |-> rd, exc |-> "AttributeError"]
    ELSE IF fault = "pause"
    THEN [tasks |-> [tk EXCEPT ![rd.task].faulted = TRUE],
          reader |-> rd, exc |-> "DaqError"]
    ELSE IF fault = "close"
    THEN [tasks |-> [Pausefunc(tk, rd.task) EXCEPT ![rd.task].closeCalls = @ + 1,
                                                   ![rd.task].faulted = TRUE],
          reader |-> rd, exc |-> "DaqError"]
    ELSE [tasks |-> CloseTask(Pausefunc(tk, rd.task), rd.task),
          reader |-> [rd EXCEPT !.task_attr = "False", !.task = 0],
          exc |-> "none"]

\* --------------------------------------------------- Mainwindow.start_reading
\* samp_chan/samp_rate < 0.1 or samp_chan/samp_rate > 5.  The quotient is kept
\* as the fraction samp_chan/samp_rate and compared with 1/10 and 5/1 by cross
\* multiplication, which is what the float comparison yields for operands
\* below 2^51.
RatLess(a, b) == a[1] * b[2] < b[1] * a[2]

\* Mutation: the lower boundary compared with <= (ratio 0.1 rejected).
RatioOutOfRangeStrict(samp_chan, samp_rate) ==
    LET ratio == <<samp_chan, samp_rate>> IN
    ~RatLess(<<1, 10>>, ratio) \/ RatLess(<<5, 1>>, ratio)

\* Mutation: the lower boundary not checked at all.
RatioOutOfRangeUpperOnly(samp_chan, samp_rate) ==
    RatLess(<<5, 1>>, <<samp_chan, samp_rate>>)

RatioOutOfRange(samp_chan, samp_rate) ==
    LET ratio == <<samp_chan, samp_rate>> IN
    RatLess(ratio, <<1, 10>>) \/ RatLess(<<5, 1>>, ratio)

\* The driver calls of the try block of start_reading, in the order made.
ConfigSteps ==
    <<"Reader", "Task", "add_chan", "cfg_clk", "cfg_logging", "buf_size",
      "register", "start">>

StepNo(step) ==
    IF step = "none" THEN Len(ConfigSteps) + 1
    ELSE CHOOSE i \in 1..Len(ConfigSteps) : ConfigSteps[i] = step

\* step ran to its end when the call named failAt raised (or none did).
Ran(step, failAt) == StepNo(step) < StepNo(failAt)

\* The try block of start_reading up to the call failAt, which raises
\* DaqError: Reader(...), configure_task(), the logging configuration when
\* self.logging is set, Reader.start_reading().
Configure(rd, tk, sg, n, samp_rate, samp_chan, lg, failAt) ==
    LET t == n + 1
        rd1 == IF Ran("Reader", failAt) THEN NewReader(samp_rate, samp_chan, lg)
               ELSE rd
        created == Ran("Task", failAt)
        rd2 == IF created THEN [rd1 EXCEPT !.task_attr = "Task", !.task = t]
               ELSE rd1
        tk2 == IF created THEN [tk EXCEPT ![t] = [NoTask EXCEPT !.state = "configured"]]
               ELSE tk
        clk == Ran("cfg_clk", failAt)
        tk3 == IF clk THEN [tk2 EXCEPT ![t].rate = samp_rate,
                                       ![t].ring = SampsPerChan(samp_rate)]
               ELSE tk2
        rd3 == IF clk THEN [rd2 EXCEPT !.channel_reader = t] ELSE rd2
        logged == lg /\ Ran("cfg_logging", failAt)
        sg4 == IF logged THEN Append(sg, <<>>) ELSE sg
        tk4 == IF logged THEN [tk3 EXCEPT ![t].logcfg = TRUE, ![t].file = Len(sg4)]
               ELSE tk3
        tk5 == IF lg /\ Ran("buf_size", failAt)
               THEN [tk4 EXCEPT ![t].ring = InputBufSize(samp_rate)]
               ELSE tk4
        tk6 == IF Ran("register", failAt)
               THEN [tk5 EXCEPT ![t].reg = TRUE, ![t].every_n = samp_chan]
               ELSE tk5
        tk7 == IF Ran("start", failAt) THEN [tk6 EXCEPT ![t].state = "running"]
               ELSE tk6
    IN [reader |-> rd3, tasks |-> tk7, segs |-> sg4,
        nTasks |-> IF created THEN t ELSE n,
        task |-> IF created THEN t ELSE 0]

\* The calls that can raise in a start with self.logging = lg.
FailPoints(lg) ==
    {ConfigSteps[i] : i \in 1..Len(ConfigSteps)}
        \ (IF lg THEN {} ELSE {"cfg_logging", "buf_size"})

StartEnabled == pc = "idle" /\ btn_start = "normal"

\* int_from_str raises (or the division by a zero sample rate does): the
\* exception leaves start_reading after the three button updates.
StartReadingRaises ==
    /\ StartEnabled
    /\ LET r == int_from_str(sample_rate)
           c == int_from_str(sample_chan)
       IN /\ r.exc # "none" \/ c.exc # "none" \/ r.val = 0
          /\ lastOp' = Op("start",
                          IF r.exc # "none" THEN r.exc
                          ELSE IF c.exc # "none" THEN c.exc
                          ELSE "ZeroDivisionError")
    /\ btn_start' = "disabled"
    /\ btn_stop' = "normal"
    /\ btn_logging' = "disabled"
    /\ UNCHANGED <<sample_rate, sample_chan, max_samples_file, amount_samples_var,
                   logging, reader, tasks, nTasks, segs, nBlocks, flagged, pc, run,
                   faults>>

\* The ratio check fails: message box, Start enabled again, counter zeroed.
StartReadingRejected ==
    /\ StartEnabled
    /\ LET r == int_from_str(sample_rate)
           c == int_from_str(sample_chan)
       IN /\ r.exc = "none" /\ c.exc = "none" /\ r.val # 0
          /\ RatioOutOfRange(c.val, r.val)
    /\ btn_start' = "normal"
    /\ btn_stop' = "disabled"
    /\ btn_logging' = "disabled"
    /\ amount_samples_var' = 0
    /\ lastOp' = [Op("start", "rejected") EXCEPT !.shown = TRUE]
    /\ UNCHANGED <<sample_rate, sample_chan, max_samples_file, logging, reader,
                   tasks, nTasks, segs, nBlocks, flagged, pc, run, faults>>

\* The ratio check passes and no driver call raises: the session runs.
StartReadingRuns ==
    /\ StartEnabled
    /\ nTasks < MaxTasks
    /\ LET r == int_from_str(sample_rate)
           c == int_from_str(sample_chan)
       IN /\ r.exc = "none" /\ c.exc = "none" /\ r.val # 0
          /\ ~RatioOutOfRange(c.val, r.val)
          /\ LET cf == Configure(reader, tasks, segs, nTasks, r.val, c.val,
                                 logging, "none")
             IN /\ reader' = cf.reader
                /\ tasks' = cf.tasks
                /\ segs' = cf.segs
                /\ nTasks' = cf.nTasks
                /\ lastOp' = [Op("start", "running") EXCEPT !.tgt = cf.task]
    /\ btn_start' = "disabled"
    /\ btn_stop' = "normal"
    /\ btn_logging' = "disabled"
    /\ run' = [n |-> 0, roll |-> 0, clean |-> logging /\ amount_samples_var = 0]
    /\ UNCHANGED <<sample_rate, sample_chan, max_samples_file, amount_samples_var,
                   logging, nBlocks, flagged, pc, faults>>

\* A driver call of the try block raises DaqError: show_error(error), which
\* calls stop_reading() and then shows the message box.  An exception raised
\* by stop_reading leaves show_error before the message box.
StartReadingDaqError ==
    /\ StartEnabled
    /\ LET r == int_from_str(sample_rate)
           c == int_from_str(sample_chan)
       IN /\ r.exc = "none" /\ c.exc = "none" /\ r.val # 0
          /\ ~RatioOutOfRange(c.val, r.val)
          /\ faults < MaxFaults
          /\ \E failAt \in FailPoints(logging), fault \in StopFaults(faults + 1) :
               /\ Ran("Task", failAt) => nTasks < MaxTasks
               /\ LET cf == Configure(reader, tasks, segs, nTasks, r.val, c.val,
                                      logging, failAt)
                      st == Stopfunc(cf.tasks, cf.reader, fault)
                  IN /\ reader' = st.reader
                     /\ tasks' = st.tasks
                     /\ segs' = cf.segs
                     /\ nTasks' = cf.nTasks
                     /\ faults' = faults + 1 + (IF st.exc = "DaqError" THEN 1 ELSE 0)
                     /\ lastOp' = [Op("start", "DaqError") EXCEPT
                                      !.tgt = cf.task,
                                      !.pre = IF Ran("Reader", failAt)
                                              THEN "Reader made" ELSE "none",
                                      !.shown = (st.exc = "none")]
    /\ btn_start' = "normal"
    /\ btn_stop' = "disabled"
    /\ btn_logging' = "normal"
    /\ amount_samples_var' = 0
    /\ UNCHANGED <<sample_rate, sample_chan, max_samples_file, logging, nBlocks,
                   flagged, pc, run>>

\* ---------------------------------------------------- Mainwindow.stop_reading
\* The Stop button: the buttons and the counter are updated first ...
StopReadingBegin ==
    /\ pc = "idle"
    /\ btn_stop = "normal"
    /\ btn_start' = "normal"
    /\ btn_stop' = "disabled"
    /\ btn_logging' = "normal"
    /\ amount_samples_var' = 0
    /\ pc' = "stopping"
    /\ run' = [run EXCEPT !.clean = FALSE]
    /\ lastOp' = Op("other", "none")
    /\ UNCHANGED <<sample_rate, sample_chan, max_samples_file, logging, reader,
                   tasks, nTasks, segs, nBlocks, flagged, faults>>

\* ... and then self.reader.stopfunc() halts and releases the task.  The
\* driver's callback thread may run a callback between the two.
StopReadingFinish ==
    /\ pc = "stopping"
    /\ \E fault \in StopFaults(faults) :
         LET st == Stopfunc(tasks, reader, fault) IN
         /\ reader' = st.reader
         /\ tasks' = st.tasks
         /\ faults' = faults + (IF st.exc = "DaqError" THEN 1 ELSE 0)
         /\ lastOp' = [Op("stop", st.exc) EXCEPT
                          !.tgt = reader.task,
                          !.pre = IF reader.task = 0 THEN "none"
                                  ELSE tasks[reader.task].state]
    /\ pc' = "idle"
    /\ UNCHANGED <<sample_rate, sample_chan, max_samples_file, amount_samples_var,
                   logging, btn_start, btn_stop, btn_logging, nTasks, segs,
                   nBlocks, flagged, run>>

\* -------------------------------------------------------- Mainwindow.callback
\* What the callback adds to amount_samples_var when self.logging is set.
LoggedIncrement(rate_entry, rd) == int_from_str(rate_entry)

\* Mutation: the counter compared with the threshold of __init__ instead of
\* the entry's current value.
RolloverDueDefault(count, max) == count >= DefaultMaxSamplesFile

\* amount_samples_var.get() >= max_samples_file.get()
RolloverDue(count, max) == count >= max

\* One run of the callback.  readOK: the driver does not fail
\* read_many_sample; fileOK: it does not fail start_new_file.  The result
\* names where the callback ended (out) and the state it left.
CallbackResult(readOK, fileOK) ==
    LET rt == reader.channel_reader
        same == [out |-> "none", reader |-> reader, tasks |-> tasks, segs |-> segs,
                 nBlocks |-> nBlocks, flagged |-> flagged,
                 count |-> amount_samples_var, inc |-> 0, roll |-> 0, n |-> 0,
                 fault |-> 0]
    IN
    IF rt = 0 THEN [same EXCEPT !.out = "read:AttributeError"]
    ELSE IF tasks[rt].state # "running"
    THEN [same EXCEPT !.out = "read:DaqError"]
    ELSE IF ~readOK
    THEN [same EXCEPT !.out = "read:DaqError", !.fault = 1]
    ELSE
      LET b == nBlocks + 1
          \* LOG_AND_READ: the driver appends what is read to the open file
          sg1 == IF tasks[rt].logcfg
                 THEN [segs EXCEPT ![tasks[rt].file] = Append(@, b)]
                 ELSE segs
          got == [same EXCEPT !.reader = [reader EXCEPT !.data_in = b],
                              !.segs = sg1,
                              !.nBlocks = b,
                              !.n = 1,
                              !.flagged = IF logging THEN Append(flagged, b)
                                          ELSE flagged]
          p == LoggedIncrement(sample_rate, reader)
      IN
      IF logging /\ p.exc # "none" THEN [got EXCEPT !.out = "count:" \o p.exc]
      ELSE
        LET inc == IF logging THEN p.val ELSE 0
            cnt == amount_samples_var + inc
            counted == [got EXCEPT !.count = cnt, !.inc = inc]
        IN
        IF ~RolloverDue(cnt, max_samples_file) THEN [counted EXCEPT !.out = "ok"]
        ELSE IF reader.task_attr # "Task"
        THEN [counted EXCEPT !.out = "newfile:AttributeError"]
        ELSE IF ~tasks[reader.task].logcfg
        THEN [counted EXCEPT !.out = "newfile:DaqError"]
        ELSE IF ~fileOK
        THEN [counted EXCEPT !.out = "newfile:DaqError", !.fault = 1]
        ELSE
          LET sg2 == Append(sg1, <<>>) IN
          [counted EXCEPT !.out = "rollover",
                          !.segs = sg2,
                          !.tasks = [tasks EXCEPT ![reader.task].file = Len(sg2)],
                          !.count = 0,
                          !.roll = 1]

\* The every-n-samples event of the running task t calls self.callback.
Callback(t) ==
    /\ pc # "quit"
    /\ tasks[t].state = "running"
    /\ tasks[t].reg
    /\ nBlocks < MaxBlocks
    /\ \E readOK \in BOOLEAN, fileOK \in BOOLEAN :
         LET res == CallbackResult(readOK, fileOK) IN
         /\ faults + res.fault <= MaxFaults
         /\ faults' = faults + res.fault
         /\ reader' = res.reader
         /\ tasks' = res.tasks
         /\ segs' = res.segs
         /\ nBlocks' = res.nBlocks
         /\ flagged' = res.flagged
         /\ amount_samples_var' = res.count
         /\ run' = [run EXCEPT !.n = @ + res.n, !.roll = @ + res.roll]
         /\ lastOp' = [Op("callback", res.out) EXCEPT
                          !.tgt = t, !.inc = res.inc, !.flag = logging,
                          !.pre = tasks[t].state]
    /\ UNCHANGED <<sample_rate, sample_chan, max_samples_file, logging, btn_start,
                   btn_stop, btn_logging, nTasks, pc>>

\* ------------------------------------------------- the other operator actions
\* Mainwindow.logging_toggle
LoggingToggled(lg) == ~lg

\* Mainwindow.openfolder (Browse button, Window > Choose folder): always
\* available; enables the Logging button and toggles the flag.
OpenFolder ==
    /\ pc = "idle"
    /\ btn_logging' = "normal"
    /\ logging' = LoggingToggled(logging)
    /\ run' = [run EXCEPT !.clean = FALSE]
    /\ lastOp' = Op("other", "none")
    /\ UNCHANGED <<sample_rate, sample_chan, max_samples_file, amount_samples_var,
                   btn_start, btn_stop, reader, tasks, nTasks, segs, nBlocks,
                   flagged, pc, faults>>

\* The Logging button.
LoggingToggle ==
    /\ pc = "idle"
    /\ btn_logging = "normal"
    /\ logging' = LoggingToggled(logging)
    /\ run' = [run EXCEPT !.clean = FALSE]
    /\ lastOp' = Op("other", "none")
    /\ UNCHANGED <<sample_rate, sample_chan, max_samples_file, amount_samples_var,
                   btn_start, btn_stop, btn_logging, reader, tasks, nTasks, segs,
                   nBlocks, flagged, pc, faults>>

\* The operator types into the Sample Rate entry.  start_reading and the
\* callback read it, so typing while Start is disabled and no task runs is
\* modelled as typing when one of them can read it.
SetSampleRate(e) ==
    /\ pc = "idle"
    /\ btn_start = "normal" \/ \E t \in TaskIds : tasks[t].state = "running"
    /\ e # sample_rate
    /\ sample_rate' = e
    /\ run' = [run EXCEPT !.clean = FALSE]
    /\ lastOp' = Op("other", "none")
    /\ UNCHANGED <<sample_chan, max_samples_file, amount_samples_var, logging,
                   btn_start, btn_stop, btn_logging, reader, tasks, nTasks, segs,
                   nBlocks, flagged, pc, faults>>

\* The operator types into the Samples/Channel entry.  Only start_reading
\* reads it, so typing while Start is disabled commutes with every step up
\* to the moment Start is enabled again and is modelled as typing then.
SetSampleChan(e) ==
    /\ StartEnabled
    /\ e # sample_chan
    /\ sample_chan' = e
    /\ lastOp' = Op("other", "none")
    /\ UNCHANGED <<sample_rate, max_samples_file, amount_samples_var, logging,
                   btn_start, btn_stop, btn_logging, reader, tasks, nTasks, segs,
                   nBlocks, flagged, pc, run, faults>>

\* The operator types into the Max Samples/File entry.  Only the callback
\* reads it, so typing while no task runs commutes with every step up to the
\* next start and is modelled as typing right after it.
SetMaxSamples(m) ==
    /\ pc = "idle"
    /\ \E t \in TaskIds : tasks[t].state = "running"
    /\ m # max_samples_file
    /\ max_samples_file' = m
    /\ run' = [run EXCEPT !.clean = FALSE]
    /\ lastOp' = Op("other", "none")
    /\ UNCHANGED <<sample_rate, sample_chan, amount_samples_var, logging,
                   btn_start, btn_stop, btn_logging, reader, tasks, nTasks, segs,
                   nBlocks, flagged, pc, faults>>

\* Mainwindow.quit_me (window closed, Window > Exit).
QuitMe ==
    /\ pc = "idle"
    /\ pc' = "quit"
    /\ \E fault \in StopFaults(faults) :
         IF ~reader.made \/ reader.task_attr = "False"
         THEN /\ lastOp' = Op("quit", "none")
              /\ UNCHANGED <<reader, tasks, faults>>
         ELSE LET st == Stopfunc(tasks, reader, fault) IN
              /\ reader' = st.reader
              /\ tasks' = st.tasks
              /\ faults' = faults + (IF st.exc = "DaqError" THEN 1 ELSE 0)
              /\ lastOp' = [Op("quit", st.exc) EXCEPT !.tgt = reader.task]
    /\ UNCHANGED <<sample_rate, sample_chan, max_samples_file, amount_samples_var,
                   logging, btn_start, btn_stop, btn_logging, nTasks, segs,
                   nBlocks, flagged, run>>

Next ==
    \/ StartReadingRaises
    \/ StartReadingRejected
    \/ StartReadingRuns
    \/ StartReadingDaqError
    \/ StopReadingBegin
    \/ StopReadingFinish
    \/ \E t \in TaskIds : Callback(t)
    \/ OpenFolder
    \/ LoggingToggle
    \/ \E e \in RateChoices : SetSampleRate(e)
    \/ \E e \in ChanChoices : SetSampleChan(e)
    \/ \E m \in MaxSamplesChoices : SetMaxSamples(m)
    \/ QuitMe

Spec == Init /\ [][Next]_vars

\* The handlers of the Tk thread alone: no every-n-samples event is delivered.
NextControl ==
    \/ StartReadingRaises
    \/ StartReadingRejected
    \/ StartReadingRuns
    \/ StartReadingDaqError
    \/ StopReadingBegin
    \/ StopReadingFinish
    \/ OpenFolder
    \/ LoggingToggle
    \/ \E e \in RateChoices : SetSampleRate(e)
    \/ \E e \in ChanChoices : SetSampleChan(e)
    \/ QuitMe

SpecControl == Init /\ [][NextControl]_vars

\* The Start and Stop buttons alone, after the operator typed one of the wider
\* choice of texts into the two entries and did or did not choose a folder
\* (openfolder sets the logging flag and enables the Logging button).
InitStart ==
    /\ sample_rate \in RateInputs
    /\ sample_chan \in ChanInputs
    /\ max_samples_file = DefaultMaxSamplesFile
    /\ amount_samples_var = 0
    /\ logging \in BOOLEAN
    /\ btn_start = "normal"
    /\ btn_stop = "disabled"
    /\ btn_logging = IF logging THEN "normal" ELSE "disabled"
    /\ reader = NoReader
    /\ tasks = [t \in TaskIds |-> NoTask]
    /\ nTasks = 0
    /\ segs = <<>>
    /\ nBlocks = 0
    /\ flagged = <<>>
    /\ pc = "idle"
    /\ lastOp = Op("init", "none")
    /\ run = [n |-> 0, roll |-> 0, clean |-> FALSE]
    /\ faults = 0

NextStart ==
    \/ StartReadingRaises
    \/ StartReadingRejected
    \/ StartReadingRuns
    \/ StartReadingDaqError
    \/ StopReadingBegin
    \/ StopReadingFinish

SpecStart == InitStart /\ [][NextStart]_vars

\* Reader.start_reading called on the Reader rd: self.task is False after
\* stopfunc (and does not exist before configure_task), so the first line
\* raises AttributeError; otherwise the callback is registered and the task
\* started.
ReaderStartReading(tk, rd) ==
    IF ~rd.made \/ rd.task_attr # "Task"
    THEN [tasks |-> tk, exc |-> "AttributeError"]
    ELSE [tasks |-> [tk EXCEPT ![rd.task].reg = TRUE,
                               ![rd.task].every_n = rd.block_size,
                               ![rd.task].state = "running"],
          exc |-> "none"]

\* self.reader.start_reading() on the Reader of a stopped session.
ReaderStartReadingCall ==
    /\ pc = "idle"
    /\ reader.made /\ reader.task_attr = "False"
    /\ LET st == ReaderStartReading(tasks, reader) IN
       /\ tasks' = st.tasks
       /\ lastOp' = Op("restart", st.exc)
    /\ UNCHANGED <<sample_rate, sample_chan, max_samples_file, amount_samples_var,
                   logging, btn_start, btn_stop, btn_logging, reader, nTasks, segs,
                   nBlocks, flagged, pc, run, faults>>

\* self.reader.pausefunc() on the Reader of a running session; the driver
\* may fail task.stop().
PausefuncCall ==
    /\ pc = "idle"
    /\ reader.made /\ reader.task_attr = "Task"
    /\ tasks[reader.task].state = "running"
    /\ \E fault \in StopFaults(faults) \ {"close"} :
         IF fault = "pause"
         THEN /\ tasks' = [tasks EXCEPT ![reader.task].faulted = TRUE]
              /\ faults' = faults + 1
              /\ lastOp' = [Op("pause", "DaqError") EXCEPT !.tgt = reader.task]
         ELSE /\ tasks' = Pausefunc(tasks, reader.task)
              /\ faults' = faults
              /\ lastOp' = [Op("pause", "none") EXCEPT !.tgt = reader.task]
    /\ UNCHANGED <<sample_rate, sample_chan, max_samples_file, amount_samples_var,
                   logging, btn_start, btn_stop, btn_logging, reader, nTasks, segs,
                   nBlocks, flagged, pc, run>>

\* The life of the Reader objects: sessions started, read, paused, stopped,
\* and a stopped Reader asked to start again.
NextReader ==
    \/ StartReadingRuns
    \/ \E t \in TaskIds : Callback(t)
    \/ PausefuncCall
    \/ StopReadingBegin
    \/ StopReadingFinish
    \/ ReaderStartReadingCall

\* The segmentation of a session: the entries, the threshold and the logging
\* flag are what the operator set before Start; then callbacks, a change of
\* the threshold and Stop.
SegEntries == { <<DefaultEntry, DefaultEntry>>, << <<"1">>, <<"5">> >> }
SegMaxChoices == { DefaultMaxSamplesFile, 3 }

InitSeg ==
    /\ \E e \in SegEntries : sample_rate = e[1] /\ sample_chan = e[2]
    /\ max_samples_file \in SegMaxChoices
    /\ amount_samples_var = 0
    /\ logging \in BOOLEAN
    /\ btn_start = "normal"
    /\ btn_stop = "disabled"
    /\ btn_logging = (IF logging THEN "normal" ELSE "disabled")
    /\ reader = NoReader
    /\ tasks = [t \in TaskIds |-> NoTask]
    /\ nTasks = 0
    /\ segs = <<>>
    /\ nBlocks = 0
    /\ flagged = <<>>
    /\ pc = "idle"
    /\ lastOp = Op("init", "none")
    /\ run = [n |-> 0, roll |-> 0, clean |-> FALSE]
    /\ faults = 0

NextSeg ==
    \/ StartReadingRuns
    \/ \E t \in TaskIds : Callback(t)
    \/ \E m \in SegMaxChoices : SetMaxSamples(m)
    \/ StopReadingBegin
    \/ StopReadingFinish

SpecSeg == InitSeg /\ [][NextSeg]_vars

SpecReader == InitSeg /\ [][NextReader]_vars

\* ------------------------------------------------------------------ claims
\* The two entries as start_reading parses them.
RateValue == int_from_str(sample_rate).val
ChanValue == int_from_str(sample_chan).val
EntriesParse ==
    /\ int_from_str(sample_rate).exc = "none"
    /\ int_from_str(sample_chan).exc = "none"
    /\ RateValue > 0
    /\ ChanValue > 0

\* The ratio block_size/sample_rate lies in [0.1, 5], in integer arithmetic.
RatioValid(samp_chan, samp_rate) ==
    10 * samp_chan >= samp_rate /\ samp_chan <= 5 * samp_rate

StartDecided ==
    lastOp.op = "start" /\ lastOp.out \in {"rejected", "running", "DaqError"}

C2_RejectIsAtomic ==
    [][(/\ lastOp'.op = "start"
        /\ EntriesParse
        /\ ~RatioValid(ChanValue, RateValue))
       => (/\ reader' = reader
           /\ tasks' = tasks
           /\ nTasks' = nTasks
           /\ segs' = segs)]_vars

\* C2 witness: a start was rejected while the Reader of an earlier session,
\* with its task released, is still the one the window holds.
C2_Witness ==
    /\ lastOp.op = "start" /\ lastOp.out = "rejected"
    /\ reader.made /\ reader.task_attr = "False"
    /\ nTasks >= 1

\* C3 (as claimed): with logging on for the whole run and a constant
\* threshold, after N callbacks of block_size samples each the rollovers
\* number floor(N * block_size / max) and the counter is
\* (N * block_size) mod max.
C3_RolloverCountFormula ==
    (run.clean /\ reader.made /\ max_samples_file > 0 /\ nTasks = 1)
        => (/\ run.roll = (run.n * reader.block_size) \div max_samples_file
            /\ amount_samples_var = (run.n * reader.block_size) % max_samples_file)

RECURSIVE Flatten(_)
Flatten(ss) == IF ss = <<>> THEN <<>> ELSE Head(ss) \o Flatten(Tail(ss))

\* C4 (as claimed): the blocks appended to the files, in order, are the blocks
\* the callbacks read while the logging flag was set.
C4_LoggedEqualsFlagged == Flatten(segs) = flagged

\* C5 (as claimed): stop on a Running or Paused session always ends with the
\* task released, the clock halted before the release.
C5_StopAlwaysReleases ==
    (lastOp.op = "stop" /\ lastOp.pre \in {"running", "halted"})
        => (/\ tasks[lastOp.tgt].state = "closed"
            /\ tasks[lastOp.tgt].closedFrom = "halted")

\* C6 (as claimed): over start, stop, configuration error, repeated stop and
\* quit, close is called at most once on a task, and after quit every task
\* that was created is released.
C6_ReleasedExactlyOnce ==
    \A t \in TaskIds :
        /\ tasks[t].closeCalls <= 1
        /\ (pc = "quit" /\ t <= nTasks) => (tasks[t].state = "closed")

\* C7 (as claimed): a DaqError raised in the try block of start_reading is
\* reported, and the task the attempt created, if any, is released.
C7_ConfigErrorNeverPartial ==
    (lastOp.op = "start" /\ lastOp.out = "DaqError")
        => (/\ lastOp.shown
            /\ (lastOp.tgt # 0) => (tasks[lastOp.tgt].state = "closed"))

\* C8 (as claimed): a read that fails inside the callback of a Running
\* session leaves the session Stopped, its task released.
C8_ReadErrorStopsSession ==
    (lastOp.op = "callback" /\ lastOp.out = "read:DaqError")
        => tasks[lastOp.tgt].state = "closed"

C10_IncrementIsBlockSize ==
    (/\ lastOp.op = "callback"
     /\ lastOp.flag
     /\ run.clean
     /\ lastOp.out \in {"ok", "rollover", "newfile:DaqError", "newfile:AttributeError"})
        => lastOp.inc = reader.block_size

\* The callbacks that got as far as the rollover check.
ReachedCheck == {"ok", "rollover", "newfile:DaqError", "newfile:AttributeError"}

\* C11 (as claimed): in a callback with the logging flag set, in which the
\* driver raises nothing of its own accord, the rollover happens if and only
\* if the incremented counter is >= the threshold; then a new segment is
\* opened and the counter is 0, otherwise the counter keeps the incremented
\* value and no segment is opened.
C11_RolloverIffThreshold ==
    [][(/\ lastOp'.op = "callback"
        /\ lastOp'.flag
        /\ lastOp'.out \in ReachedCheck
        /\ faults' = faults)
       => LET cnt == amount_samples_var + lastOp'.inc IN
          IF cnt >= max_samples_file
          THEN Len(segs') = Len(segs) + 1 /\ amount_samples_var' = 0
          ELSE Len(segs') = Len(segs) /\ amount_samples_var' = cnt]_vars

\* C12 (as claimed): in a session started with logging on and left alone by
\* the operator, with the threshold below the block size, every callback
\* that logs a block rolls over.
C12_RolloverEveryBlock ==
    (/\ lastOp.op = "callback"
     /\ lastOp.flag
     /\ run.clean
     /\ faults = 0
     /\ lastOp.out \in ReachedCheck
     /\ max_samples_file < reader.block_size)
        => lastOp.out = "rollover"

\* C13: a callback compares the counter with the value the threshold has
\* when the callback runs, and a change of the threshold alone rolls nothing
\* over: files, counter, rollover count and tasks are unchanged by it.
C13_ThresholdReadAtEachCheck ==
    [][/\ (lastOp'.op = "callback" /\ lastOp'.out \in ReachedCheck)
          => ((lastOp'.out # "ok")
                <=> (amount_samples_var + lastOp'.inc >= max_samples_file))
       /\ (max_samples_file' # max_samples_file)
          => (/\ segs' = segs
              /\ amount_samples_var' = amount_samples_var
              /\ tasks' = tasks
              /\ run'.roll = run.roll)]_vars

\* C13 witness: a session started with logging on read two blocks, both
\* counted; the first did not roll over under the default threshold, the
\* threshold was then lowered to 3 and the second block rolled over.
C13_Witness ==
    /\ lastOp.op = "callback" /\ lastOp.out = "rollover"
    /\ max_samples_file = 3
    /\ nTasks = 1 /\ tasks[1].logcfg
    /\ run.n = 2 /\ run.roll = 1
    /\ flagged = <<1, 2>>
    /\ segs = << <<1, 2>>, <<>> >>

\* C14 (as claimed): a callback that finds the logging flag unset leaves the
\* counter alone and rolls nothing over; stated for the runs in which no
\* driver call raised of its own accord.
C14_NoRolloverWhenLoggingOff ==
    (/\ lastOp.op = "callback"
     /\ ~lastOp.flag
     /\ faults = 0
     /\ lastOp.out \in ReachedCheck)
        => (lastOp.out = "ok" /\ lastOp.inc = 0)

\* C15 (as claimed): whenever a session starts running the counter is 0;
\* stated for the runs in which no driver call raised.
C15_CounterZeroAtStart ==
    (lastOp.op = "start" /\ lastOp.out = "running" /\ faults = 0)
        => amount_samples_var = 0

\* C16: a pausefunc that returns halts the task and changes nothing else:
\* the handle is not released, buffer, counter, files and the Reader are
\* unchanged; and a callback only ever runs for a task that is running.
C16_PauseOnlyHaltsClock ==
    [][/\ (lastOp'.op = "pause" /\ lastOp'.out = "none")
          => (/\ tasks[lastOp'.tgt].state = "running"
              /\ tasks' = [tasks EXCEPT ![lastOp'.tgt].state = "halted"]
              /\ tasks'[lastOp'.tgt].closeCalls = 0
              /\ reader' = reader
              /\ amount_samples_var' = amount_samples_var
              /\ segs' = segs
              /\ flagged' = flagged
              /\ run' = run)
       /\ (lastOp'.op = "callback" /\ lastOp'.out \in ReachedCheck)
          => tasks[lastOp'.tgt].state = "running"]_vars

\* C16 witness: a logging session that has counted a block was paused; the
\* task is halted with its handle open, counter and buffer as they were.
C16_Witness ==
    /\ lastOp.op = "pause" /\ lastOp.out = "none"
    /\ tasks[lastOp.tgt].state = "halted"
    /\ tasks[lastOp.tgt].closeCalls = 0
    /\ reader.task_attr = "Task"
    /\ amount_samples_var > 0
    /\ reader.data_in # 0

\* C17: a released task never runs again, Reader.start_reading on a stopped
\* Reader raises and starts nothing, and every successful start makes a new
\* Reader with a task that did not exist before and a zeroed buffer.
C17_StoppedIsTerminal ==
    [][/\ \A t \in TaskIds :
            tasks[t].state = "closed" => tasks'[t].state = "closed"
       /\ (lastOp'.op = "restart")
          => (lastOp'.out = "AttributeError" /\ tasks' = tasks /\ reader' = reader)
       /\ (lastOp'.op = "start" /\ lastOp'.out = "running")
          => (/\ nTasks' = nTasks + 1
              /\ reader'.task = nTasks'
              /\ reader'.channel_reader = nTasks'
              /\ tasks[nTasks'].state = "none"
              /\ tasks'[nTasks'].state = "running"
              /\ reader'.data_in = 0
              /\ \A t \in 1..nTasks : tasks'[t] = tasks[t])]_vars

\* C17 witness: a second session runs on its own task after the first one,
\* which had read a block, was stopped and released.
C17_Witness ==
    /\ lastOp.op = "start" /\ lastOp.out = "running"
    /\ nTasks = 2
    /\ tasks[1].state = "closed"
    /\ tasks[2].state = "running"
    /\ nBlocks >= 1
    /\ reader.task = 2 /\ reader.data_in = 0

\* C18 (as claimed): while the session of the Reader the window holds runs,
\* the logging flag equals the flag the session was configured with.
C18_FlagFixedWhileRunning ==
    (/\ reader.made /\ reader.task_attr = "Task"
     /\ tasks[reader.task].state = "running"
     /\ faults = 0)
        => (logging = tasks[reader.task].logcfg)

\* C19 (as claimed): at most one task is open (created and not released).
C19_AtMostOneOpenTask ==
    Cardinality({t \in TaskIds :
                   tasks[t].state \in {"configured", "running", "halted"}}) <= 1

\* C20 (as claimed): when start_reading or stop_reading has ended, Stop is
\* enabled exactly when a task is running and Start exactly when none is;
\* stated for the runs in which no driver call raised.
C20_ButtonsMatchSession ==
    (pc = "idle" /\ lastOp.op \in {"start", "stop"} /\ faults = 0)
        => LET running == \E t \in TaskIds : tasks[t].state = "running" IN
           /\ (btn_stop = "normal") <=> running
           /\ (btn_start = "normal") <=> ~running

====
